---- MODULE Spec2Model ----
(***************************************************************************)
(* Expense-Split-Tracker: the balance ledger, the split calculator, the    *)
(* expense engine and the settlement engine.                               *)
(*                                                                         *)
(* Money is counted in cents (the DECIMAL(15,2) columns of the schema), a  *)
(* percentage in whole percent.  A user or group reference of a request is *)
(* the row id of the user or group whose UUID it is, UnknownUUID for a     *)
(* well-formed UUID of no row, MalformedUUID for a string uuid.Parse       *)
(* rejects.  An error is the Code of the AppError returned, "" is nil.     *)
(***************************************************************************)
EXTENDS Integers, Sequences, FiniteSets, TLC

VARIABLES expenses, splits, settlements, balances, members, pending, last, calc,
          view, idem

vars == <<expenses, splits, settlements, balances, members, pending, last, calc,
          view, idem>>

ledger == <<expenses, splits, settlements, balances>>

----------------------------------------------------------------------------
(* Bounds of the model *)

\* members of the group; user NumMembers + 1 exists and is no member
NumMembers == 3
\* stand-in, in cents, for ValidateAmount's limit of 999999999.99
AmountLimit == 3
\* longest split list of a request handled against the ledger
MaxSplits == 2
\* committed expenses plus settlements
MaxOps == 2
\* requests in flight at once in the concurrent specification
NumProcs == 2
\* largest total and longest list given to the split calculator alone
MaxTotal == 12
MaxParts == 4

----------------------------------------------------------------------------
(* Identifiers, currencies, errors *)

MalformedUUID == -1
UnknownUUID == 0

Users == 1..(NumMembers + 1)
Groups == {1}
UserRefs == Users \cup {UnknownUUID, MalformedUUID}
GroupRefs == Groups \cup {UnknownUUID, MalformedUUID}

SupportedCurrencies == {"USD", "EUR", "GBP", "JPY", "CAD", "AUD", "CHF", "CNY", "INR"}

ErrValidation == "VALIDATION_ERROR"
ErrInvalid == "INVALID_VALUE"
ErrRequired == "REQUIRED_FIELD"
ErrNotFound == "NOT_FOUND"
ErrInsufficientFund == "INSUFFICIENT_FUND"
ErrInvalidSplit == "INVALID_SPLIT"
ErrDatabase == "DATABASE_ERROR"
\* the raw driver error WithTransaction returns when Begin fails
ErrTx == "TX_ERROR"

IsValidUUID(ref) == ref # MalformedUUID

\* userRepo.GetByUUID / groupRepo.GetByUUID: the row, or NotFound
UserExists(ref) == ref \in Users
GroupExists(ref) == ref \in Groups

IsMember(mem, g, u) == u \in mem[g]

----------------------------------------------------------------------------
(* Decimal arithmetic *)

\* decimal.Div followed by Round(2), in cents: n / d to the nearest integer,
\* a half away from zero
RoundDivTrunc(n, d) == IF n >= 0 THEN n \div d ELSE -((-n) \div d)
RoundDiv(n, d) ==
    IF n >= 0 THEN (2 * n + d) \div (2 * d) ELSE -((2 * (-n) + d) \div (2 * d))

RECURSIVE SumAmounts(_)
SumAmounts(s) == IF s = <<>> THEN 0 ELSE s[1].amount + SumAmounts(Tail(s))

RECURSIVE SumPercentages(_)
SumPercentages(s) == IF s = <<>> THEN 0 ELSE s[1].percentage + SumPercentages(Tail(s))

----------------------------------------------------------------------------
(* Validation utility *)

ValidateAmountUpperOnly(amount) == IF amount > AmountLimit THEN ErrValidation ELSE ""
ValidateAmount(amount) ==
    IF amount <= 0 THEN ErrValidation
    ELSE IF amount > AmountLimit THEN ErrValidation
    ELSE ""

ValidateDescription(d) == IF d = "" THEN ErrRequired ELSE ""

\* an empty currency is replaced by USD before the check
DefaultCurrency(c) == IF c = "" THEN "USD" ELSE c
ValidateCurrency(c) == IF c \in SupportedCurrencies THEN "" ELSE ErrInvalid

ValidatePercentage(p) ==
    IF p < 0 THEN ErrValidation
    ELSE IF p > 100 THEN ErrValidation
    ELSE ""

----------------------------------------------------------------------------
(* Split calculator.  A split of a request is [user, amount, percentage];  *)
(* a result is [err, splits], splits being rows [user, amount, percentage].*)

\* the checks every strategy makes on the participant of one split
ParticipantErr(mem, g, sr) ==
    IF ~IsValidUUID(sr.user) THEN ErrInvalid
    ELSE IF ~UserExists(sr.user) THEN ErrNotFound
    ELSE IF ~IsMember(mem, g, sr.user) THEN ErrValidation
    ELSE ""

RECURSIVE EqualLoop(_, _, _, _, _, _, _)
EqualLoop(mem, g, req, amountPerUser, i, totalAssigned, acc) ==
    IF i > Len(req.splits) THEN [err |-> "", splits |-> acc]
    ELSE LET sr == req.splits[i]
             e == ParticipantErr(mem, g, sr)
             amount == IF i = Len(req.splits) THEN req.amount - totalAssigned
                       ELSE amountPerUser
         IN IF e # "" THEN [err |-> e, splits |-> <<>>]
            ELSE EqualLoop(mem, g, req, amountPerUser, i + 1, totalAssigned + amount,
                           Append(acc, [user |-> sr.user, amount |-> amount,
                                        percentage |-> 0]))

calculateEqualSplits(mem, g, req) ==
    EqualLoop(mem, g, req, RoundDiv(req.amount, Len(req.splits)), 1, 0, <<>>)

\* !totalSplitAmount.Equal(req.Amount) is the rejection
AmountsReconcileLoosely(totalSplitAmount, amount) == totalSplitAmount <= amount
AmountsReconcile(totalSplitAmount, amount) == totalSplitAmount = amount

RECURSIVE ExactLoop(_, _, _, _, _, _)
ExactLoop(mem, g, req, i, totalSplitAmount, acc) ==
    IF i > Len(req.splits)
    THEN IF ~AmountsReconcile(totalSplitAmount, req.amount)
         THEN [err |-> ErrInvalidSplit, splits |-> <<>>]
         ELSE [err |-> "", splits |-> acc]
    ELSE LET sr == req.splits[i]
             e == IF ~IsValidUUID(sr.user) THEN ErrInvalid
                  ELSE IF sr.amount <= 0 THEN ErrValidation
                  ELSE ParticipantErr(mem, g, sr)
         IN IF e # "" THEN [err |-> e, splits |-> <<>>]
            ELSE ExactLoop(mem, g, req, i + 1, totalSplitAmount + sr.amount,
                           Append(acc, [user |-> sr.user, amount |-> sr.amount,
                                        percentage |-> 0]))

calculateExactSplits(mem, g, req) == ExactLoop(mem, g, req, 1, 0, <<>>)

\* !totalPercentage.Equal(decimal.NewFromInt(100)) is the rejection
PercentagesReconcileLoosely(totalPercentage) == totalPercentage >= 100
PercentagesReconcile(totalPercentage) == totalPercentage = 100

RECURSIVE PercentageLoop(_, _, _, _, _, _)
PercentageLoop(mem, g, req, i, totalPercentage, acc) ==
    IF i > Len(req.splits)
    THEN IF ~PercentagesReconcile(totalPercentage)
         THEN [err |-> ErrInvalidSplit, splits |-> <<>>]
         ELSE [err |-> "", splits |-> acc]
    ELSE LET sr == req.splits[i]
             e == IF ~IsValidUUID(sr.user) THEN ErrInvalid
                  ELSE IF ValidatePercentage(sr.percentage) # ""
                       THEN ValidatePercentage(sr.percentage)
                  ELSE ParticipantErr(mem, g, sr)
             amount == RoundDiv(req.amount * sr.percentage, 100)
         IN IF e # "" THEN [err |-> e, splits |-> <<>>]
            ELSE PercentageLoop(mem, g, req, i + 1, totalPercentage + sr.percentage,
                                Append(acc, [user |-> sr.user, amount |-> amount,
                                             percentage |-> sr.percentage]))

calculatePercentageSplits(mem, g, req) == PercentageLoop(mem, g, req, 1, 0, <<>>)

validateAndCalculateSplits(mem, g, req) ==
    IF Len(req.splits) = 0 THEN [err |-> ErrValidation, splits |-> <<>>]
    ELSE IF req.splitType = "equal" THEN calculateEqualSplits(mem, g, req)
    ELSE IF req.splitType = "exact" THEN calculateExactSplits(mem, g, req)
    ELSE IF req.splitType = "percentage" THEN calculatePercentageSplits(mem, g, req)
    ELSE [err |-> ErrInvalid, splits |-> <<>>]

----------------------------------------------------------------------------
(* The store.  db is [expenses, splits, settlements, balances]: the three  *)
(* tables as sequences of rows in insertion order (a row's id is its       *)
(* position) and user_balances as a function from the <<group, user,       *)
(* currency>> keys that have a row to the balance.                         *)

EmptyBalances == [k \in {} |-> 0]

EmptyDB == [expenses |-> <<>>, splits |-> <<>>, settlements |-> <<>>,
            balances |-> EmptyBalances]

DB == [expenses |-> expenses, splits |-> splits, settlements |-> settlements,
       balances |-> balances]

\* balanceRepo.GetByGroupAndUser: the balance, zero when there is no row
GetByGroupAndUser(bal, g, u, c) ==
    IF <<g, u, c>> \in DOMAIN bal THEN bal[<<g, u, c>>] ELSE 0

\* balanceRepo.GetGroupBalances: the rows of one group and currency
GetGroupBalances(bal, g, c) == {k \in DOMAIN bal : k[1] = g /\ k[3] = c}

\* INSERT ... ON DUPLICATE KEY UPDATE balance = balance + VALUES(balance)
UpdateBalanceOverwrite(bal, g, u, amount, c) ==
    [k \in DOMAIN bal \cup {<<g, u, c>>} |-> IF k = <<g, u, c>> THEN amount ELSE bal[k]]
UpdateBalance(bal, g, u, amount, c) ==
    [k \in DOMAIN bal \cup {<<g, u, c>>} |->
        IF k = <<g, u, c>> THEN GetByGroupAndUser(bal, g, u, c) + amount ELSE bal[k]]

\* One statement of a unit of work against the store it sees: [db, err].
\* expense_splits has UNIQUE KEY (expense_id, user_id).
ExecStep(db, st) ==
    IF st.op = "createExpense"
    THEN [db |-> [db EXCEPT !.expenses =
                     Append(@, [id |-> Len(db.expenses) + 1, group |-> st.group,
                                paidBy |-> st.paidBy, amount |-> st.amount,
                                currency |-> st.currency, splitType |-> st.splitType])],
          err |-> ""]
    ELSE IF st.op = "createSplit"
    THEN IF \E i \in 1..Len(db.splits) :
                /\ db.splits[i].expenseID = Len(db.expenses)
                /\ db.splits[i].user = st.user
         THEN [db |-> db, err |-> ErrDatabase]
         ELSE [db |-> [db EXCEPT !.splits =
                          Append(@, [expenseID |-> Len(db.expenses), user |-> st.user,
                                     amount |-> st.amount,
                                     percentage |-> st.percentage])],
               err |-> ""]
    ELSE IF st.op = "createSettlement"
    THEN [db |-> [db EXCEPT !.settlements =
                     Append(@, [id |-> Len(db.settlements) + 1, group |-> st.group,
                                from |-> st.from, to |-> st.to, amount |-> st.amount,
                                currency |-> st.currency])],
          err |-> ""]
    ELSE [db |-> [db EXCEPT !.balances =
                     UpdateBalance(@, st.group, st.user, st.amount, st.currency)],
          err |-> ""]

\* the callback of a unit of work: its statements in order, stopping at the
\* first that fails; statement failAt fails in the database (0: none does)
RECURSIVE RunSteps(_, _, _, _)
RunSteps(db, steps, i, failAt) ==
    IF i > Len(steps) THEN [db |-> db, err |-> ""]
    ELSE IF i = failAt THEN [db |-> db, err |-> ErrDatabase]
    ELSE LET r == ExecStep(db, steps[i])
         IN IF r.err # "" THEN r ELSE RunSteps(r.db, steps, i + 1, failAt)

\* db.WithTransaction(fn): Begin, fn, then in the deferred function Commit
\* when fn returned nil and Rollback otherwise.  The result is unnamed, so
\* what the deferred function assigns to err is not returned: the call
\* returns Begin's error or fn's, and nil when Commit fails.
\* fail is [at, k]: at = "begin", "step" (statement k), "commit", or a place
\* outside the unit of work.  The answer is [db, err, committed].
WithTransactionNoRollback(db, steps, fail) ==
    IF fail.at = "begin" THEN [db |-> db, err |-> ErrTx, committed |-> FALSE]
    ELSE LET r == RunSteps(db, steps, 1, IF fail.at = "step" THEN fail.k ELSE 0)
         IN IF r.err # "" THEN [db |-> r.db, err |-> r.err, committed |-> FALSE]
            ELSE IF fail.at = "commit" THEN [db |-> db, err |-> "", committed |-> FALSE]
            ELSE [db |-> r.db, err |-> "", committed |-> TRUE]
WithTransaction(db, steps, fail) ==
    IF fail.at = "begin" THEN [db |-> db, err |-> ErrTx, committed |-> FALSE]
    ELSE LET r == RunSteps(db, steps, 1, IF fail.at = "step" THEN fail.k ELSE 0)
         IN IF r.err # "" THEN [db |-> db, err |-> r.err, committed |-> FALSE]
            ELSE IF fail.at = "commit" THEN [db |-> db, err |-> "", committed |-> FALSE]
            ELSE [db |-> r.db, err |-> "", committed |-> TRUE]

\* expenseRepo.GetExpenseSplits after the unit of work: the rows of the
\* expense, none being no error
ExpenseReadBack(w, fail) == IF fail.at = "readback" THEN ErrDatabase ELSE ""

\* settlementRepo.GetByUUID after the unit of work: NotFound when the row
\* is not there
SettlementReadBack(w, fail) ==
    IF fail.at = "readback" THEN ErrDatabase
    ELSE IF ~w.committed THEN ErrNotFound
    ELSE ""

----------------------------------------------------------------------------
(* Expense engine *)

\* The part of CreateExpense before the unit of work:
\* [err, resolved, currency, splits]; resolved: a repository was consulted.
ExpenseValidation(mem, req, fail) ==
    LET currency == DefaultCurrency(req.currency)
        reject(e, res) == [err |-> e, resolved |-> res, currency |-> currency,
                           splits |-> <<>>]
    IN IF ValidateAmount(req.amount) # "" THEN reject(ValidateAmount(req.amount), FALSE)
       ELSE IF ValidateDescription(req.description) # ""
            THEN reject(ValidateDescription(req.description), FALSE)
       ELSE IF ValidateCurrency(currency) # "" THEN reject(ValidateCurrency(currency), FALSE)
       ELSE IF ~IsValidUUID(req.group) THEN reject(ErrInvalid, FALSE)
       ELSE IF ~IsValidUUID(req.paidBy) THEN reject(ErrInvalid, FALSE)
       ELSE IF fail.at = "read" THEN reject(ErrDatabase, TRUE)
       ELSE IF ~GroupExists(req.group) THEN reject(ErrNotFound, TRUE)
       ELSE IF ~UserExists(req.paidBy) THEN reject(ErrNotFound, TRUE)
       ELSE IF ~IsMember(mem, req.group, req.paidBy) THEN reject(ErrValidation, TRUE)
       ELSE LET sp == validateAndCalculateSplits(mem, req.group, req)
            IN [err |-> sp.err, resolved |-> TRUE, currency |-> currency,
                splits |-> sp.splits]

\* the statements of CreateExpense's unit of work: the expense, its splits,
\* then updateBalancesAfterExpense
updateBalancesAfterExpense(req, currency, sp) ==
    [i \in 1..Len(sp) |-> [op |-> "updateBalance", group |-> req.group,
                            user |-> sp[i].user, amount |-> sp[i].amount,
                            currency |-> currency]]
    \o <<[op |-> "updateBalance", group |-> req.group, user |-> req.paidBy,
          amount |-> -req.amount, currency |-> currency]>>

ExpenseSteps(req, currency, sp) ==
    <<[op |-> "createExpense", group |-> req.group, paidBy |-> req.paidBy,
       amount |-> req.amount, currency |-> currency, splitType |-> req.splitType]>>
    \o [i \in 1..Len(sp) |-> [op |-> "createSplit", user |-> sp[i].user,
                               amount |-> sp[i].amount,
                               percentage |-> sp[i].percentage]]
    \o updateBalancesAfterExpense(req, currency, sp)

----------------------------------------------------------------------------
(* Settlement engine *)

\* req.Amount.GreaterThan(fromBalance.Balance): the user cannot pay more than
\* they owe
ExceedsDebtOrSettlesIt(amount, balance) == amount >= balance
ExceedsDebt(amount, balance) == amount > balance

\* req.FromUserUUID == req.ToUserUUID
SameParticipantUnchecked(from, to) == FALSE
SameParticipant(from, to) == from = to

\* The part of CreateSettlement before the unit of work: [err, resolved, currency]
SettlementValidation(mem, bal, req, fail) ==
    LET currency == DefaultCurrency(req.currency)
        reject(e, res) == [err |-> e, resolved |-> res, currency |-> currency]
    IN IF ValidateAmount(req.amount) # "" THEN reject(ValidateAmount(req.amount), FALSE)
       ELSE IF ValidateCurrency(currency) # "" THEN reject(ValidateCurrency(currency), FALSE)
       ELSE IF ~IsValidUUID(req.group) THEN reject(ErrInvalid, FALSE)
       ELSE IF ~IsValidUUID(req.from) THEN reject(ErrInvalid, FALSE)
       ELSE IF ~IsValidUUID(req.to) THEN reject(ErrInvalid, FALSE)
       ELSE IF SameParticipant(req.from, req.to) THEN reject(ErrValidation, FALSE)
       ELSE IF fail.at = "read" THEN reject(ErrDatabase, TRUE)
       ELSE IF ~GroupExists(req.group) THEN reject(ErrNotFound, TRUE)
       ELSE IF ~UserExists(req.from) THEN reject(ErrNotFound, TRUE)
       ELSE IF ~UserExists(req.to) THEN reject(ErrNotFound, TRUE)
       ELSE IF ~IsMember(mem, req.group, req.from) THEN reject(ErrValidation, TRUE)
       ELSE IF ~IsMember(mem, req.group, req.to) THEN reject(ErrValidation, TRUE)
       ELSE IF ExceedsDebt(req.amount,
                           GetByGroupAndUser(bal, req.group, req.from, currency))
            THEN reject(ErrInsufficientFund, TRUE)
       ELSE reject("", TRUE)

updateBalancesAfterSettlementPayerOnly(req, currency) ==
    <<[op |-> "updateBalance", group |-> req.group, user |-> req.from,
       amount |-> -req.amount, currency |-> currency]>>
updateBalancesAfterSettlement(req, currency) ==
    <<[op |-> "updateBalance", group |-> req.group, user |-> req.from,
       amount |-> -req.amount, currency |-> currency],
      [op |-> "updateBalance", group |-> req.group, user |-> req.to,
       amount |-> req.amount, currency |-> currency]>>

SettlementSteps(req, currency) ==
    <<[op |-> "createSettlement", group |-> req.group, from |-> req.from,
       to |-> req.to, amount |-> req.amount, currency |-> currency]>>
    \o updateBalancesAfterSettlement(req, currency)

----------------------------------------------------------------------------
(* Requests.  pending[p] is the request process p is handling, last[p] the *)
(* outcome of the request it handled last.                                 *)

Procs == 1..NumProcs
Members == 1..NumMembers
Outsider == NumMembers + 1

NoRequest == [kind |-> "none"]
NoResult == [req |-> NoRequest, err |-> "", tx |-> FALSE, resolved |-> FALSE,
             committed |-> FALSE]
NoFail == [at |-> "none", k |-> 0]

SplitReq(u, a, pct) == [user |-> u, amount |-> a, percentage |-> pct]

\* lists of 1..n elements of S
ListsOf(S, n) == UNION {[1..k -> S] : k \in 1..n}

PercentageChoices == {-50, 0, 50, 100, 150}

\* split lists over users 2 and 3, and three naming someone else second
EqualLists ==
    {[i \in DOMAIN us |-> SplitReq(us[i], 0, 0)] : us \in ListsOf({2, 3}, MaxSplits)}
    \cup {<<SplitReq(1, 0, 0), SplitReq(u, 0, 0)>> :
             u \in {Outsider, UnknownUUID, MalformedUUID}}
ExactLists ==
    {[i \in DOMAIN l |-> SplitReq(l[i][1], l[i][2], 0)] :
        l \in ListsOf({2, 3} \X (0..AmountLimit), MaxSplits)}
PercentageLists ==
    {[i \in DOMAIN l |-> SplitReq(i, 0, l[i])] : l \in ListsOf(PercentageChoices, MaxSplits)}

ExpenseReq(g, payer, a, c, d, t, sp) ==
    [kind |-> "expense", group |-> g, paidBy |-> payer, amount |-> a, currency |-> c,
     description |-> d, splitType |-> t, splits |-> sp]

\* requests that pass the checks made before the splits are looked at
SoundExpenseRequests ==
    {ExpenseReq(1, payer, a, "", "d", "equal", sp) :
        payer \in {1, 2}, a \in 1..AmountLimit, sp \in EqualLists}
    \cup {ExpenseReq(1, 1, a, "EUR", "d", "exact", sp) :
        a \in 1..AmountLimit, sp \in ExactLists}
    \cup {ExpenseReq(1, NumMembers, a, "", "d", "percentage", sp) :
        a \in 1..AmountLimit, sp \in PercentageLists}

\* requests with one fault in what is checked before the splits
FaultyExpenseRequests ==
    {ExpenseReq(1, 1, a, "USD", "d", "equal", <<SplitReq(2, 0, 0)>>) :
        a \in {-1, 0, AmountLimit + 1}}
    \cup {ExpenseReq(1, 1, 1, "USD", "", "equal", <<SplitReq(2, 0, 0)>>),
          ExpenseReq(1, 1, 1, "XXX", "d", "equal", <<SplitReq(2, 0, 0)>>),
          ExpenseReq(1, 1, 1, "USD", "d", "equal", <<>>),
          ExpenseReq(1, 1, 1, "USD", "d", "shares", <<SplitReq(2, 0, 0)>>)}
    \cup {ExpenseReq(g, 1, 1, "USD", "d", "equal", <<SplitReq(2, 0, 0)>>) :
        g \in {UnknownUUID, MalformedUUID}}
    \cup {ExpenseReq(1, payer, 1, "USD", "d", "equal", <<SplitReq(2, 0, 0)>>) :
        payer \in {Outsider, UnknownUUID, MalformedUUID}}

ExpenseRequests == SoundExpenseRequests \cup FaultyExpenseRequests

SettlementReq(g, f, t, a, c) ==
    [kind |-> "settlement", phase |-> "received", group |-> g, from |-> f, to |-> t,
     amount |-> a, currency |-> c]

SettlementRequests ==
    {SettlementReq(1, f, t, a, c) :
        f \in Members, t \in Members \cup {Outsider}, a \in 0..(AmountLimit + 1),
        c \in {"", "EUR"}}
    \cup {SettlementReq(g, f, f, 1, c) :
        g \in GroupRefs, f \in {1, UnknownUUID, MalformedUUID}, c \in {"USD", "XXX"}}
    \cup {SettlementReq(1, f, t, 1, "USD") :
        f \in {1, Outsider, UnknownUUID}, t \in {2, UnknownUUID, MalformedUUID}}

\* where a database call can fail around n statements of a unit of work
FailureChoices(n) ==
    {NoFail} \cup {[at |-> w, k |-> 0] : w \in {"read", "begin", "commit", "readback"}}
    \cup {[at |-> "step", k |-> k] : k \in 1..n}

----------------------------------------------------------------------------
(* The handlers *)

\* CreateExpense on store db: [db, err, tx, resolved, committed]
CreateExpense(mem, db, req, fail) ==
    LET v == ExpenseValidation(mem, req, fail)
        w == WithTransaction(db, ExpenseSteps(req, v.currency, v.splits), fail)
    IN IF v.err # ""
       THEN [db |-> db, err |-> v.err, tx |-> FALSE, resolved |-> v.resolved,
             committed |-> FALSE]
       ELSE IF w.err # ""
       THEN [db |-> w.db, err |-> w.err, tx |-> TRUE, resolved |-> TRUE,
             committed |-> FALSE]
       ELSE [db |-> w.db, err |-> ExpenseReadBack(w, fail),
             tx |-> TRUE, resolved |-> TRUE, committed |-> w.committed]

\* the unit of work of CreateSettlement and the read-back after it
SettlementExecution(db, req, currency, fail) ==
    LET w == WithTransaction(db, SettlementSteps(req, currency), fail)
    IN IF w.err # ""
       THEN [db |-> w.db, err |-> w.err, tx |-> TRUE, resolved |-> TRUE,
             committed |-> FALSE]
       ELSE [db |-> w.db, err |-> SettlementReadBack(w, fail),
             tx |-> TRUE, resolved |-> TRUE, committed |-> w.committed]

\* CreateSettlement on store db: [db, err, tx, resolved, committed]
CreateSettlement(mem, db, req, fail) ==
    LET v == SettlementValidation(mem, db.balances, req, fail)
    IN IF v.err # ""
       THEN [db |-> db, err |-> v.err, tx |-> FALSE, resolved |-> v.resolved,
             committed |-> FALSE]
       ELSE SettlementExecution(db, req, v.currency, fail)

\* what the caller and the log see of a handled request
Outcome(req, r) == [req |-> req, err |-> r.err, tx |-> r.tx, resolved |-> r.resolved,
                    committed |-> r.committed]

Store(r) ==
    /\ expenses' = r.db.expenses
    /\ splits' = r.db.splits
    /\ settlements' = r.db.settlements
    /\ balances' = r.db.balances

OpsDone == Len(expenses) + Len(settlements)

ReceiveExpense(p) ==
    /\ pending[p] = NoRequest
    /\ last[p] = NoResult
    /\ OpsDone < MaxOps
    /\ \E req \in ExpenseRequests : pending' = [pending EXCEPT ![p] = req]
    /\ UNCHANGED <<expenses, splits, settlements, balances, members, last, calc, view, idem>>

ReceiveSettlement(p) ==
    /\ pending[p] = NoRequest
    /\ last[p] = NoResult
    /\ OpsDone < MaxOps
    /\ \E req \in SettlementRequests : pending' = [pending EXCEPT ![p] = req]
    /\ UNCHANGED <<expenses, splits, settlements, balances, members, last, calc, view, idem>>

HandleExpense(p) ==
    /\ pending[p].kind = "expense"
    /\ \E fail \in FailureChoices(2 * Len(pending[p].splits) + 2) :
          LET r == CreateExpense(members, DB, pending[p], fail)
          IN /\ Store(r)
             /\ last' = [last EXCEPT ![p] = Outcome(pending[p], r)]
    /\ pending' = [pending EXCEPT ![p] = NoRequest]
    /\ UNCHANGED <<members, calc, view, idem>>

HandleSettlement(p) ==
    /\ pending[p].kind = "settlement"
    /\ \E fail \in FailureChoices(3) :
          LET r == CreateSettlement(members, DB, pending[p], fail)
          IN /\ Store(r)
             /\ last' = [last EXCEPT ![p] = Outcome(pending[p], r)]
    /\ pending' = [pending EXCEPT ![p] = NoRequest]
    /\ UNCHANGED <<members, calc, view, idem>>

\* the controller writes the response; the process is free for the next request
Respond(p) ==
    /\ pending[p] = NoRequest
    /\ last[p] # NoResult
    /\ last' = [last EXCEPT ![p] = NoResult]
    /\ UNCHANGED <<expenses, splits, settlements, balances, members, pending, calc, view, idem>>

NoCalc == [req |-> NoRequest, done |-> FALSE, err |-> "", splits |-> <<>>]

\* no read has been answered; no idempotency record is stored
NoView == [kind |-> "none"]
NoKeys == <<>>

Init ==
    /\ expenses = <<>>
    /\ splits = <<>>
    /\ settlements = <<>>
    /\ balances = EmptyBalances
    /\ members = [g \in Groups |-> Members]
    /\ pending = [p \in Procs |-> NoRequest]
    /\ last = [p \in Procs |-> NoResult]
    /\ calc = NoCalc
    /\ view = NoView
    /\ idem = NoKeys

\* one request at a time, each handled to its end before the next arrives
Next ==
    \/ ReceiveExpense(1)
    \/ ReceiveSettlement(1)
    \/ HandleExpense(1)
    \/ HandleSettlement(1)
    \/ Respond(1)

Spec == Init /\ [][Next]_vars

----------------------------------------------------------------------------
(* Concurrent settlements: each request-handling goroutine runs the checks *)
(* of CreateSettlement, which read the committed store outside any         *)
(* transaction, and later its unit of work; other requests run in between. *)

\* the store after user 1 paid AmountLimit for user 2
SeedExpense == ExpenseReq(1, 1, AmountLimit, "", "d", "equal", <<SplitReq(2, 0, 0)>>)
SeedDB == CreateExpense([g \in Groups |-> Members], EmptyDB, SeedExpense, NoFail).db

ConcurrentSettlementRequests ==
    {SettlementReq(1, f, t, a, "") : f \in Members, t \in Members, a \in 1..AmountLimit}

ReceiveConcurrent(p) ==
    /\ pending[p] = NoRequest
    /\ last[p] = NoResult
    /\ OpsDone < MaxOps
    /\ \E req \in ConcurrentSettlementRequests : pending' = [pending EXCEPT ![p] = req]
    /\ UNCHANGED <<expenses, splits, settlements, balances, members, last, calc, view, idem>>

\* CreateSettlement up to and including the insufficient-debt check
ValidateSettlement(p) ==
    /\ pending[p].kind = "settlement"
    /\ pending[p].phase = "received"
    /\ \E fail \in {NoFail, [at |-> "read", k |-> 0]} :
          LET v == SettlementValidation(members, balances, pending[p], fail)
          IN IF v.err # ""
             THEN /\ last' = [last EXCEPT ![p] =
                                 [req |-> pending[p], err |-> v.err, tx |-> FALSE,
                                  resolved |-> v.resolved, committed |-> FALSE]]
                  /\ pending' = [pending EXCEPT ![p] = NoRequest]
             ELSE /\ pending' = [pending EXCEPT ![p].phase = "validated"]
                  /\ UNCHANGED last
    /\ UNCHANGED <<expenses, splits, settlements, balances, members, calc, view, idem>>

\* CreateSettlement from WithTransaction on
ExecuteSettlement(p) ==
    /\ pending[p].kind = "settlement"
    /\ pending[p].phase = "validated"
    /\ \E fail \in FailureChoices(3) \ {[at |-> "read", k |-> 0]} :
          LET r == SettlementExecution(DB, pending[p],
                                       DefaultCurrency(pending[p].currency), fail)
          IN /\ Store(r)
             /\ last' = [last EXCEPT ![p] = Outcome(pending[p], r)]
    /\ pending' = [pending EXCEPT ![p] = NoRequest]
    /\ UNCHANGED <<members, calc, view, idem>>

InitConc ==
    /\ expenses = SeedDB.expenses
    /\ splits = SeedDB.splits
    /\ settlements = SeedDB.settlements
    /\ balances = SeedDB.balances
    /\ members = [g \in Groups |-> Members]
    /\ pending = [p \in Procs |-> NoRequest]
    /\ last = [p \in Procs |-> NoResult]
    /\ calc = NoCalc
    /\ view = NoView
    /\ idem = NoKeys

NextConc ==
    \E p \in Procs :
        \/ ReceiveConcurrent(p)
        \/ ValidateSettlement(p)
        \/ ExecuteSettlement(p)
        \/ Respond(p)

SpecConc == InitConc /\ [][NextConc]_vars

----------------------------------------------------------------------------
(* The split calculator alone, on a wider range of totals and lists *)

CalculatorTotals == (1..MaxTotal) \cup {9000, 10000}

\* the first n members in turn, repeating after the last
Participants(n) == [i \in 1..n |-> ((i - 1) % NumMembers) + 1]

CalculatorRequests ==
    {ExpenseReq(1, 1, a, "USD", "d", "equal",
                [i \in 1..n |-> SplitReq(Participants(n)[i], 0, 0)]) :
        a \in CalculatorTotals, n \in 1..MaxParts}
    \cup {ExpenseReq(1, 1, a, "USD", "d", "equal",
                     <<SplitReq(1, 0, 0), SplitReq(u, 0, 0), SplitReq(2, 0, 0)>>) :
        a \in CalculatorTotals, u \in {Outsider, UnknownUUID, MalformedUUID}}
    \cup {ExpenseReq(1, 1, a, "USD", "d", "exact",
                     [i \in DOMAIN l |-> SplitReq(Participants(Len(l))[i], l[i], 0)]) :
        a \in 1..MaxTotal, l \in ListsOf({0, 1, 2, 5}, MaxParts - 1)}
    \cup {ExpenseReq(1, 1, a, "USD", "d", "percentage",
                     [i \in DOMAIN l |-> SplitReq(Participants(Len(l))[i], 0, l[i])]) :
        a \in CalculatorTotals,
        l \in ListsOf({-1, 0, 25, 33, 34, 50, 100, 101}, MaxParts - 1)}

InitCalc ==
    /\ expenses = <<>>
    /\ splits = <<>>
    /\ settlements = <<>>
    /\ balances = EmptyBalances
    /\ members = [g \in Groups |-> Members]
    /\ pending = [p \in Procs |-> NoRequest]
    /\ last = [p \in Procs |-> NoResult]
    /\ \E req \in CalculatorRequests : calc = [NoCalc EXCEPT !.req = req]
    /\ view = NoView
    /\ idem = NoKeys

Calculate ==
    /\ ~calc.done
    /\ LET r == validateAndCalculateSplits(members, calc.req.group, calc.req)
       IN calc' = [req |-> calc.req, done |-> TRUE, err |-> r.err, splits |-> r.splits]
    /\ UNCHANGED <<expenses, splits, settlements, balances, members, pending, last, view, idem>>

SpecCalc == InitCalc /\ [][Calculate]_vars

----------------------------------------------------------------------------
(* Membership changes concurrent with expenses and settlements: the       *)
(* membership checks of CreateExpense and CreateSettlement read the store  *)
(* before the unit of work; AddMember and RemoveMember commit in between.  *)

ErrAlreadyExists == "ALREADY_EXISTS"

\* groupService.AddMember on membership mem: [mem, err]
AddMember(mem, g, u) ==
    IF ~IsValidUUID(g) \/ ~IsValidUUID(u) THEN [mem |-> mem, err |-> ErrInvalid]
    ELSE IF ~GroupExists(g) \/ ~UserExists(u) THEN [mem |-> mem, err |-> ErrNotFound]
    ELSE IF IsMember(mem, g, u) THEN [mem |-> mem, err |-> ErrAlreadyExists]
    ELSE [mem |-> [mem EXCEPT ![g] = @ \cup {u}], err |-> ""]

\* groupService.RemoveMember: the DELETE that affects no row is a not-found
RemoveMember(mem, g, u) ==
    IF ~IsValidUUID(g) \/ ~IsValidUUID(u) THEN [mem |-> mem, err |-> ErrInvalid]
    ELSE IF ~GroupExists(g) \/ ~UserExists(u) THEN [mem |-> mem, err |-> ErrNotFound]
    ELSE IF ~IsMember(mem, g, u) THEN [mem |-> mem, err |-> ErrNotFound]
    ELSE [mem |-> [mem EXCEPT ![g] = @ \ {u}], err |-> ""]

\* the unit of work of CreateExpense and the read-back after it
ExpenseExecution(db, req, currency, sp, fail) ==
    LET w == WithTransaction(db, ExpenseSteps(req, currency, sp), fail)
    IN IF w.err # ""
       THEN [db |-> w.db, err |-> w.err, tx |-> TRUE, resolved |-> TRUE,
             committed |-> FALSE]
       ELSE [db |-> w.db, err |-> ExpenseReadBack(w, fail),
             tx |-> TRUE, resolved |-> TRUE, committed |-> w.committed]

MembershipExpenseRequests ==
    {ExpenseReq(1, payer, 1, "", "d", "equal", <<SplitReq(u, 0, 0)>>) :
        payer \in {1, 2}, u \in {2, 3, Outsider}}

MembershipSettlementRequests ==
    {SettlementReq(1, f, t, 1, "") : f \in {2, 3}, t \in {1, Outsider}}

ReceiveMembership(p) ==
    /\ pending[p] = NoRequest
    /\ last[p] = NoResult
    /\ OpsDone < MaxOps
    /\ \E req \in MembershipExpenseRequests \cup MembershipSettlementRequests :
          pending' = [pending EXCEPT ![p] = req]
    /\ UNCHANGED <<expenses, splits, settlements, balances, members, last, calc, view, idem>>

\* CreateExpense up to WithTransaction: the request, once its checks have
\* passed, waits with the splits calculated for it
ValidateExpense(p) ==
    /\ pending[p].kind = "expense"
    /\ LET v == ExpenseValidation(members, pending[p], NoFail)
       IN IF v.err # ""
          THEN /\ last' = [last EXCEPT ![p] =
                              [req |-> pending[p], err |-> v.err, tx |-> FALSE,
                               resolved |-> v.resolved, committed |-> FALSE]]
               /\ pending' = [pending EXCEPT ![p] = NoRequest]
          ELSE /\ pending' = [pending EXCEPT ![p] =
                                 [kind |-> "validatedExpense", req |-> pending[p],
                                  currency |-> v.currency, splits |-> v.splits]]
               /\ UNCHANGED last
    /\ UNCHANGED <<expenses, splits, settlements, balances, members, calc, view, idem>>

\* CreateExpense from WithTransaction on
ExecuteExpense(p) ==
    /\ pending[p].kind = "validatedExpense"
    /\ LET r == ExpenseExecution(DB, pending[p].req, pending[p].currency,
                                 pending[p].splits, NoFail)
       IN /\ Store(r)
          /\ last' = [last EXCEPT ![p] = Outcome(pending[p].req, r)]
    /\ pending' = [pending EXCEPT ![p] = NoRequest]
    /\ UNCHANGED <<members, calc, view, idem>>

AddMemberCall ==
    \E g \in Groups, u \in Users :
        /\ members' = AddMember(members, g, u).mem
        /\ members' # members
        /\ UNCHANGED <<expenses, splits, settlements, balances, pending, last, calc,
                       view, idem>>

RemoveMemberCall ==
    \E g \in Groups, u \in Users :
        /\ members' = RemoveMember(members, g, u).mem
        /\ members' # members
        /\ UNCHANGED <<expenses, splits, settlements, balances, pending, last, calc,
                       view, idem>>

NextMem ==
    \/ AddMemberCall
    \/ RemoveMemberCall
    \/ \E p \in Procs :
          \/ ReceiveMembership(p)
          \/ ValidateExpense(p)
          \/ ExecuteExpense(p)
          \/ ValidateSettlement(p)
          \/ ExecuteSettlement(p)
          \/ Respond(p)

SpecMem == Init /\ [][NextMem]_vars

----------------------------------------------------------------------------
(* Debt simplification and the balance reads.  A row of GetGroupBalances   *)
(* is [user, balance]; a suggestion is [from, to, amount, currency].       *)

\* most rows of user_balances a group has in the reads-only specification,
\* and the largest balance, in cents, either way
MaxParties == 5
MaxDebt == 4

\* ORDER BY ub.balance DESC; rows of equal balance in the order of the scan
RECURSIVE OrderByBalanceDesc(_, _)
OrderByBalanceDesc(bal, keys) ==
    IF keys = {} THEN <<>>
    ELSE LET k == CHOOSE x \in keys :
                     \A y \in keys : \/ bal[x] > bal[y]
                                     \/ (bal[x] = bal[y] /\ x[2] <= y[2])
         IN <<[user |-> k[2], balance |-> bal[k]]>>
            \o OrderByBalanceDesc(bal, keys \ {k})

\* the rows GetGroupBalances scans, each into a Balance of its own
GroupBalanceRows(bal, g, c) == OrderByBalanceDesc(bal, GetGroupBalances(bal, g, c))

AbsKeepingSign(x) == x
Abs(x) == IF x < 0 THEN -x ELSE x

\* balance.Balance.GreaterThan(decimal.Zero) / LessThan(decimal.Zero)
IsDebtor(balance) == balance > 0
IsCreditorAboveACent(balance) == balance < -1
IsCreditor(balance) == balance < 0

\* the loop of SimplifyDebts over the rows: [creditors, debtors], a
\* creditor's balance made positive
RECURSIVE SeparateParties(_, _, _, _)
SeparateParties(rows, i, creditors, debtors) ==
    IF i > Len(rows) THEN [creditors |-> creditors, debtors |-> debtors]
    ELSE IF IsDebtor(rows[i].balance)
         THEN SeparateParties(rows, i + 1, creditors, Append(debtors, rows[i]))
    ELSE IF IsCreditor(rows[i].balance)
         THEN SeparateParties(rows, i + 1,
                              Append(creditors, [rows[i] EXCEPT !.balance = Abs(@)]),
                              debtors)
    ELSE SeparateParties(rows, i + 1, creditors, debtors)

\* the linear scan for the largest balance: the first index that holds it
MaxIndexLast(work) ==
    CHOOSE i \in 1..Len(work) :
        /\ \A j \in 1..Len(work) : work[j].balance <= work[i].balance
        /\ \A j \in (i + 1)..Len(work) : work[j].balance < work[i].balance
MaxIndex(work) ==
    CHOOSE i \in 1..Len(work) :
        /\ \A j \in 1..Len(work) : work[j].balance <= work[i].balance
        /\ \A j \in 1..(i - 1) : work[j].balance < work[i].balance

\* append(work[:i], work[i+1:]...)
RemoveAt(work, i) == SubSeq(work, 1, i - 1) \o SubSeq(work, i + 1, Len(work))

\* the smaller of what the debtor owes and what the creditor is owed
SettlementAmountOneCent(debtorBalance, creditorBalance) == 1
SettlementAmount(debtorBalance, creditorBalance) ==
    IF debtorBalance < creditorBalance THEN debtorBalance ELSE creditorBalance

\* the greedy loop of generateSettlementSuggestions
RECURSIVE GreedyLoop(_, _, _, _)
GreedyLoop(creditorsWork, debtorsWork, currency, suggestions) ==
    IF Len(creditorsWork) = 0 \/ Len(debtorsWork) = 0 THEN suggestions
    ELSE LET maxCreditorIdx == MaxIndex(creditorsWork)
             maxDebtorIdx == MaxIndex(debtorsWork)
             creditor == creditorsWork[maxCreditorIdx]
             debtor == debtorsWork[maxDebtorIdx]
             settlementAmount == SettlementAmount(debtor.balance, creditor.balance)
             creditorLeft == creditor.balance - settlementAmount
             debtorLeft == debtor.balance - settlementAmount
         IN GreedyLoop(
                IF creditorLeft = 0 THEN RemoveAt(creditorsWork, maxCreditorIdx)
                ELSE [creditorsWork EXCEPT ![maxCreditorIdx].balance = creditorLeft],
                IF debtorLeft = 0 THEN RemoveAt(debtorsWork, maxDebtorIdx)
                ELSE [debtorsWork EXCEPT ![maxDebtorIdx].balance = debtorLeft],
                currency,
                Append(suggestions, [from |-> debtor.user, to |-> creditor.user,
                                     amount |-> settlementAmount,
                                     currency |-> currency]))

generateSettlementSuggestions(creditors, debtors, currency) ==
    GreedyLoop(creditors, debtors, currency, <<>>)

\* len(debtors) * len(creditors), 1 when that is 0
OriginalTransactionsUnfloored(debtorCount, creditorCount) == debtorCount * creditorCount
OriginalTransactionsLargerSide(debtorCount, creditorCount) ==
    IF debtorCount * creditorCount = 0 THEN 1
    ELSE IF debtorCount > creditorCount THEN debtorCount ELSE creditorCount
OriginalTransactions(debtorCount, creditorCount) ==
    IF debtorCount * creditorCount = 0 THEN 1 ELSE debtorCount * creditorCount

NoSimplification == [original |-> 0, simplified |-> 0, savings |-> 0, suggestions |-> <<>>]

\* what SimplifyDebts returns for group g of balances bal: [err, result]
Simplification(bal, g, fail) ==
    IF ~IsValidUUID(g) THEN [err |-> ErrInvalid, result |-> NoSimplification]
    ELSE IF fail.at = "read" THEN [err |-> ErrDatabase, result |-> NoSimplification]
    ELSE IF ~GroupExists(g) THEN [err |-> ErrNotFound, result |-> NoSimplification]
    ELSE LET parties == SeparateParties(GroupBalanceRows(bal, g, "USD"), 1, <<>>, <<>>)
             originalTransactions == OriginalTransactions(Len(parties.debtors),
                                                          Len(parties.creditors))
             suggestions == generateSettlementSuggestions(parties.creditors,
                                                          parties.debtors, "USD")
             savings == originalTransactions - Len(suggestions)
         IN [err |-> "",
             result |-> [original |-> originalTransactions,
                         simplified |-> Len(suggestions),
                         savings |-> IF savings < 0 THEN 0 ELSE savings,
                         suggestions |-> suggestions]]

\* SimplifyDebts on store db: [db, err, result].  It issues SELECTs only;
\* balance.Balance = balance.Balance.Abs() changes the scanned row, not the table.
SimplifyDebtsWritingBack(db, g, fail) ==
    [db |-> [db EXCEPT !.balances =
                [k \in DOMAIN @ |-> IF k[1] = g /\ k[3] = "USD" THEN Abs(@[k]) ELSE @[k]]],
     err |-> Simplification(db.balances, g, fail).err,
     result |-> Simplification(db.balances, g, fail).result]
SimplifyDebts(db, g, fail) ==
    [db |-> db,
     err |-> Simplification(db.balances, g, fail).err,
     result |-> Simplification(db.balances, g, fail).result]

\* balanceService.GetUserBalance on store db: [db, err, balance]
GetUserBalanceCreating(db, mem, g, u) ==
    [db |-> [db EXCEPT !.balances = UpdateBalance(@, g, u, 0, "USD")],
     err |-> "", balance |-> GetByGroupAndUser(db.balances, g, u, "USD")]
GetUserBalance(db, mem, g, u) ==
    IF ~IsValidUUID(g) \/ ~IsValidUUID(u) THEN [db |-> db, err |-> ErrInvalid, balance |-> 0]
    ELSE IF ~GroupExists(g) \/ ~UserExists(u)
         THEN [db |-> db, err |-> ErrNotFound, balance |-> 0]
    ELSE IF ~IsMember(mem, g, u) THEN [db |-> db, err |-> ErrValidation, balance |-> 0]
    ELSE [db |-> db, err |-> "", balance |-> GetByGroupAndUser(db.balances, g, u, "USD")]

\* the sum of the rows' balances without their sign
RECURSIVE SumBalances(_)
SumBalances(rows) ==
    IF rows = <<>> THEN 0 ELSE Abs(rows[1].balance) + SumBalances(Tail(rows))

\* balanceService.GetGroupBalanceSheet on store db: [db, err, rows, summary]
GetGroupBalanceSheet(db, g) ==
    LET none == [totalPositive |-> 0, totalNegative |-> 0, netBalance |-> 0,
                 userCount |-> 0]
    IN IF ~IsValidUUID(g) THEN [db |-> db, err |-> ErrInvalid, rows |-> <<>>, summary |-> none]
       ELSE IF ~GroupExists(g)
            THEN [db |-> db, err |-> ErrNotFound, rows |-> <<>>, summary |-> none]
       ELSE LET rows == GroupBalanceRows(db.balances, g, "USD")
                totalPositive == SumBalances(SelectSeq(rows, LAMBDA r : IsDebtor(r.balance)))
                totalNegative == SumBalances(SelectSeq(rows, LAMBDA r : IsCreditor(r.balance)))
            IN [db |-> db, err |-> "", rows |-> rows,
                summary |-> [totalPositive |-> totalPositive,
                             totalNegative |-> totalNegative,
                             netBalance |-> totalPositive - totalNegative,
                             userCount |-> Len(rows)]]

\* the ledgers the reads are run against: up to MaxParties rows for group 1
\* in USD, of any balances within MaxDebt; the users are numbered from the
\* largest balance down.  The expenses and settlements behind the balances
\* are left out: the reads report user_balances only.
BalanceSheets ==
    UNION {{b \in [{<<1, u, "USD">> : u \in 1..n} -> (-MaxDebt)..MaxDebt] :
               \A u \in 1..(n - 1) : b[<<1, u, "USD">>] >= b[<<1, u + 1, "USD">>]} :
           n \in 0..MaxParties}

InitReads ==
    /\ expenses = <<>>
    /\ splits = <<>>
    /\ settlements = <<>>
    /\ balances \in BalanceSheets
    /\ members = [g \in Groups |-> Members]
    /\ pending = [p \in Procs |-> NoRequest]
    /\ last = [p \in Procs |-> NoResult]
    /\ calc = NoCalc
    /\ view = NoView
    /\ idem = NoKeys

SimplifyDebtsCall ==
    \E g \in GroupRefs :
        LET r == SimplifyDebts(DB, g, NoFail)
        IN /\ Store(r)
           /\ view' = [kind |-> "simplification", group |-> g, err |-> r.err,
                       result |-> r.result]
           /\ UNCHANGED <<members, pending, last, calc, idem>>

GetUserBalanceCall ==
    \E g \in Groups, u \in {1, NumMembers, Outsider} :
        LET r == GetUserBalance(DB, members, g, u)
        IN /\ Store(r)
           /\ view' = [kind |-> "userBalance", group |-> g, user |-> u, err |-> r.err,
                       balance |-> r.balance]
           /\ UNCHANGED <<members, pending, last, calc, idem>>

GetGroupBalanceSheetCall ==
    \E g \in Groups :
        LET r == GetGroupBalanceSheet(DB, g)
        IN /\ Store(r)
           /\ view' = [kind |-> "balanceSheet", group |-> g, err |-> r.err,
                       rows |-> r.rows, summary |-> r.summary]
           /\ UNCHANGED <<members, pending, last, calc, idem>>

NextReads ==
    \/ SimplifyDebtsCall
    \/ GetUserBalanceCall
    \/ GetGroupBalanceSheetCall

SpecReads == InitReads /\ [][NextReads]_vars

----------------------------------------------------------------------------
(* Settling a group by its suggestions: SimplifyDebts is asked once, each  *)
(* suggestion is submitted to CreateSettlement in the order listed, and    *)
(* SimplifyDebts is asked again; nothing else writes meanwhile.            *)

\* the sum of the rows' balances
RECURSIVE NetBalance(_)
NetBalance(rows) == IF rows = <<>> THEN 0 ELSE rows[1].balance + NetBalance(Tail(rows))

\* the ledgers to settle: balances in USD of the users of group 1, each
\* within the amount a settlement may carry, summing to zero
ZeroSumSheets ==
    {b \in [{<<1, u, "USD">> : u \in Users} -> (-AmountLimit)..AmountLimit] :
        NetBalance(GroupBalanceRows(b, 1, "USD")) = 0}

InitSettle ==
    /\ expenses = <<>>
    /\ splits = <<>>
    /\ settlements = <<>>
    /\ balances \in ZeroSumSheets
    /\ members = [g \in Groups |-> Users]
    /\ pending = [p \in Procs |-> NoRequest]
    /\ last = [p \in Procs |-> NoResult]
    /\ calc = NoCalc
    /\ view = NoView
    /\ idem = NoKeys

\* GET /groups/:uuid/simplify-debts
AskSuggestions ==
    /\ view = NoView
    /\ \E g \in Groups :
          LET r == SimplifyDebts(DB, g, NoFail)
          IN /\ Store(r)
             /\ view' = [kind |-> "settling", group |-> g,
                         suggestions |-> r.result.suggestions, next |-> 1,
                         errs |-> <<>>, asked |-> FALSE, again |-> NoSimplification]
    /\ UNCHANGED <<members, pending, last, calc, idem>>

\* POST /settlements with the next suggestion
SubmitSuggestion ==
    /\ view.kind = "settling"
    /\ view.next <= Len(view.suggestions)
    /\ LET sg == view.suggestions[view.next]
           r == CreateSettlement(members, DB,
                                 SettlementReq(view.group, sg.from, sg.to, sg.amount,
                                               sg.currency),
                                 NoFail)
       IN /\ Store(r)
          /\ view' = [view EXCEPT !.next = @ + 1, !.errs = Append(@, r.err)]
    /\ UNCHANGED <<members, pending, last, calc, idem>>

\* GET /groups/:uuid/simplify-debts once every suggestion has been submitted
AskAgain ==
    /\ view.kind = "settling"
    /\ view.next > Len(view.suggestions)
    /\ ~view.asked
    /\ LET r == SimplifyDebts(DB, view.group, NoFail)
       IN /\ Store(r)
          /\ view' = [view EXCEPT !.asked = TRUE, !.again = r.result]
    /\ UNCHANGED <<members, pending, last, calc, idem>>

NextSettle ==
    \/ AskSuggestions
    \/ SubmitSuggestion
    \/ AskAgain

SpecSettle == InitSettle /\ [][NextSettle]_vars

----------------------------------------------------------------------------
(* Concurrent units of work, statement by statement.  A work in progress   *)
(* is [req, currency, splits, deltas, pc, writes, concurrent]: deltas the  *)
(* UpdateBalance statements of the unit of work, pc the next of them and   *)
(* writes the rows of user_balances the transaction has written and holds  *)
(* locked until it ends.  The rows of expenses, expense_splits and         *)
(* settlements, which no other transaction touches, are shown at Commit.   *)

WorkRequests ==
    {ExpenseReq(1, payer, a, "", "d", "equal", sp) :
        payer \in {1, 2}, a \in {1, 2},
        sp \in {<<SplitReq(2, 0, 0)>>, <<SplitReq(1, 0, 0), SplitReq(2, 0, 0)>>,
                <<SplitReq(2, 0, 0), SplitReq(3, 0, 0)>>}}
    \cup {SettlementReq(1, 2, 1, a, "") : a \in {1, 2}}

\* the row is locked by the write of another transaction
RowLockedNever(k, p) == FALSE
RowLocked(k, p) ==
    \E q \in Procs \ {p} : pending[q].kind = "work" /\ k \in DOMAIN pending[q].writes

\* user_balances as a transaction with writes w reads it for an update
CurrentRows(bal, w) ==
    [k \in DOMAIN bal \cup DOMAIN w |-> IF k \in DOMAIN w THEN w[k] ELSE bal[k]]

\* the checks of the request, then Begin
BeginWork(p) ==
    /\ pending[p] = NoRequest
    /\ last[p] = NoResult
    /\ \E req \in WorkRequests :
          LET e == ExpenseValidation(members, req, NoFail)
              t == SettlementValidation(members, balances, req, NoFail)
              work(currency, sp, deltas) ==
                  [kind |-> "work", req |-> req, currency |-> currency, splits |-> sp,
                   deltas |-> deltas, pc |-> 1, writes |-> EmptyBalances,
                   concurrent |-> \E q \in Procs : pending[q].kind = "work"]
          IN IF req.kind = "expense"
             THEN /\ e.err = ""
                  /\ pending' = [pending EXCEPT ![p] =
                        work(e.currency, e.splits,
                             updateBalancesAfterExpense(req, e.currency, e.splits))]
             ELSE /\ t.err = ""
                  /\ pending' = [pending EXCEPT ![p] =
                        work(t.currency, <<>>,
                             updateBalancesAfterSettlement(req, t.currency))]
    /\ UNCHANGED <<expenses, splits, settlements, balances, members, last, calc, view, idem>>

\* balanceRepo.UpdateBalance under the transaction: one statement, on the
\* row as it stands, once no other transaction holds it
ApplyDelta(p) ==
    /\ pending[p].kind = "work"
    /\ pending[p].pc <= Len(pending[p].deltas)
    /\ LET w == pending[p]
           st == w.deltas[w.pc]
           k == <<st.group, st.user, st.currency>>
           rows == UpdateBalance(CurrentRows(balances, w.writes), st.group, st.user,
                                 st.amount, st.currency)
       IN /\ ~RowLocked(k, p)
          /\ pending' = [pending EXCEPT ![p].pc = @ + 1,
                                        ![p].writes =
                                            [x \in DOMAIN w.writes \cup {k} |-> rows[x]]]
    /\ UNCHANGED <<expenses, splits, settlements, balances, members, last, calc, view, idem>>

\* tx.Commit() after the last statement
CommitWork(p) ==
    /\ pending[p].kind = "work"
    /\ pending[p].pc > Len(pending[p].deltas)
    /\ LET w == pending[p]
           creates == IF w.req.kind = "expense"
                      THEN SubSeq(ExpenseSteps(w.req, w.currency, w.splits), 1,
                                  1 + Len(w.splits))
                      ELSE SubSeq(SettlementSteps(w.req, w.currency), 1, 1)
           r == RunSteps(DB, creates, 1, 0)
       IN /\ expenses' = r.db.expenses
          /\ splits' = r.db.splits
          /\ settlements' = r.db.settlements
          /\ balances' = CurrentRows(balances, w.writes)
          /\ last' = [last EXCEPT ![p] =
                         [req |-> w.req, err |-> "", tx |-> TRUE, resolved |-> TRUE,
                          committed |-> TRUE, concurrent |-> w.concurrent]]
    /\ pending' = [pending EXCEPT ![p] = NoRequest]
    /\ UNCHANGED <<members, calc, view, idem>>

\* a statement fails, or the transaction is chosen to end a deadlock:
\* tx.Rollback()
RollbackWork(p) ==
    /\ pending[p].kind = "work"
    /\ last' = [last EXCEPT ![p] =
                   [req |-> pending[p].req, err |-> ErrDatabase, tx |-> TRUE,
                    resolved |-> TRUE, committed |-> FALSE,
                    concurrent |-> pending[p].concurrent]]
    /\ pending' = [pending EXCEPT ![p] = NoRequest]
    /\ UNCHANGED <<expenses, splits, settlements, balances, members, calc, view, idem>>

NextDelta ==
    \E p \in Procs :
        \/ BeginWork(p)
        \/ ApplyDelta(p)
        \/ CommitWork(p)
        \/ RollbackWork(p)

SpecDelta == InitConc /\ [][NextDelta]_vars

----------------------------------------------------------------------------
(* The idempotency middleware in front of POST /api/v1/expenses and        *)
(* /api/v1/settlements, with the transaction middleware behind it.  A      *)
(* record of idempotency_keys is [key, hash, status, body]; every record   *)
(* stays within its TTL for the length of a run.                           *)

ErrInternal == "INTERNAL_ERROR"
ErrIdempotency == "IDEMPOTENCY_ERROR"

\* AppError.Status, and 201 of response.Created
Status(err) ==
    IF err = "" THEN 201
    ELSE IF err \in {ErrValidation, ErrRequired, ErrInvalid, ErrInsufficientFund,
                     ErrInvalidSplit} THEN 400
    ELSE IF err = ErrNotFound THEN 404
    ELSE IF err \in {ErrAlreadyExists, ErrIdempotency} THEN 409
    ELSE 500

Path(req) == IF req.kind = "expense" THEN "/api/v1/expenses" ELSE "/api/v1/settlements"

shouldApplyIdempotency(method, path) ==
    method = "POST" /\ path \in {"/api/v1/expenses", "/api/v1/settlements"}

\* sha256 over method, path, query and body: equal exactly for equal requests
HashRequest(method, path, query, body) == <<method, path, query, body>>

NoRecord == [key |-> UnknownUUID, hash |-> <<>>, status |-> 0, body |-> [err |-> ""]]

\* idempotencyRepository.GetByKey: the record of the key, NoRecord if none
GetByKeyMissing(records, key) == NoRecord
GetByKey(records, key) ==
    IF \E i \in 1..Len(records) : records[i].key = key
    THEN records[CHOOSE i \in 1..Len(records) : records[i].key = key]
    ELSE NoRecord

\* idempotencyRepository.Create: key_value is UNIQUE
CreateRecord(records, key, hash, body, status, fail) ==
    IF fail \/ GetByKey(records, key) # NoRecord
    THEN [records |-> records, err |-> ErrDatabase]
    ELSE [records |-> Append(records, [key |-> key, hash |-> hash, status |-> status,
                                        body |-> body]),
          err |-> ""]

\* a request with its Idempotency-Key header
Keyed(hasKey, key, req) ==
    [kind |-> "keyed", phase |-> "received", hasKey |-> hasKey, key |-> key, req |-> req,
     hash |-> HashRequest("POST", Path(req), "", req),
     status |-> 0, writerStatus |-> 0, body |-> [err |-> ""], aborted |-> FALSE,
     invoked |-> FALSE, committed |-> FALSE]

IdempotentExpense == ExpenseReq(1, 1, 1, "", "d", "equal", <<SplitReq(2, 0, 0)>>)
IdempotentSettlement == SettlementReq(1, 2, 1, 1, "")
RejectedExpense == ExpenseReq(1, 1, 0, "", "d", "equal", <<SplitReq(2, 0, 0)>>)
RejectedSettlement == SettlementReq(1, 2, 1, AmountLimit + 1, "")

\* each content is sent under one key only
ConcurrentKeyedRequests ==
    {Keyed(TRUE, 1, IdempotentExpense), Keyed(TRUE, 2, IdempotentSettlement)}
KeyedRequests ==
    ConcurrentKeyedRequests
    \cup {Keyed(TRUE, 1, RejectedExpense), Keyed(TRUE, 1, RejectedSettlement),
          Keyed(FALSE, UnknownUUID, IdempotentExpense),
          Keyed(TRUE, MalformedUUID, IdempotentSettlement)}

\* failures of the database during a keyed request: in the handler, and at
\* Begin and Commit of the transaction middleware
MiddlewareFailures ==
    {NoFail} \cup {[at |-> w, k |-> 0] : w \in {"commit", "readback", "mwBegin", "mwCommit"}}

\* the answer to a request, with whether its handler ran and committed
KeyedOutcome(k, err, status, invoked, replayed) ==
    [req |-> k.req, key |-> k.key, hasKey |-> k.hasKey, err |-> err, status |-> status,
     invoked |-> invoked, replayed |-> replayed, committed |-> k.committed,
     tx |-> k.committed, resolved |-> invoked]

ReceiveKeyed(p, requests) ==
    /\ pending[p] = NoRequest
    /\ last[p] = NoResult
    /\ OpsDone < MaxOps
    /\ \E k \in requests : pending' = [pending EXCEPT ![p] = k]
    /\ UNCHANGED <<expenses, splits, settlements, balances, members, last, calc, view, idem>>

\* IdempotencyMiddleware.Handle up to c.Next()
LookupKey(p, failures) ==
    /\ pending[p].kind = "keyed"
    /\ pending[p].phase = "received"
    /\ \E fail \in failures :
          LET k == pending[p]
              existing == GetByKey(idem, k.key)
              answer(o) == /\ last' = [last EXCEPT ![p] = o]
                           /\ pending' = [pending EXCEPT ![p] = NoRequest]
          IN IF ~shouldApplyIdempotency("POST", Path(k.req))
             THEN /\ pending' = [pending EXCEPT ![p].phase = "next"]
                  /\ UNCHANGED last
             ELSE IF ~k.hasKey \/ ~IsValidUUID(k.key)
             THEN answer(KeyedOutcome(k, ErrValidation, Status(ErrValidation), FALSE, FALSE))
             ELSE IF fail
             THEN answer(KeyedOutcome(k, ErrInternal, Status(ErrInternal), FALSE, FALSE))
             ELSE IF existing # NoRecord /\ existing.hash # k.hash
             THEN answer(KeyedOutcome(k, ErrIdempotency, Status(ErrIdempotency), FALSE,
                                      FALSE))
             ELSE IF existing # NoRecord
             THEN answer(KeyedOutcome(k, existing.body.err, existing.status, FALSE, TRUE))
             ELSE /\ pending' = [pending EXCEPT ![p].phase = "next"]
                  /\ UNCHANGED last
    /\ UNCHANGED <<expenses, splits, settlements, balances, members, calc, view, idem>>

\* c.Next(): TransactionMiddleware.Handle around the controller and service
InvokeHandler(p, failures) ==
    /\ pending[p].kind = "keyed"
    /\ pending[p].phase = "next"
    /\ \E fail \in failures :
          LET k == pending[p]
              r == IF k.req.kind = "expense"
                   THEN CreateExpense(members, DB, k.req, fail)
                   ELSE CreateSettlement(members, DB, k.req, fail)
          IN IF fail.at = "mwBegin"
             THEN /\ pending' = [pending EXCEPT ![p] =
                                    [k EXCEPT !.phase = "handled",
                                              !.status = Status(ErrInternal),
                                              !.writerStatus = Status(ErrInternal),
                                              !.body = [err |-> ErrInternal],
                                              !.aborted = TRUE]]
                  /\ UNCHANGED <<expenses, splits, settlements, balances>>
             ELSE /\ Store(r)
                  /\ pending' = [pending EXCEPT ![p] =
                                    [k EXCEPT !.phase = "handled",
                                              !.status = Status(r.err),
                                              !.writerStatus =
                                                  IF fail.at = "mwCommit"
                                                  THEN Status(ErrInternal)
                                                  ELSE Status(r.err),
                                              !.body = [err |-> r.err],
                                              !.aborted = (fail.at = "mwCommit"),
                                              !.invoked = TRUE,
                                              !.committed = r.committed]]
    /\ UNCHANGED <<members, last, calc, view, idem>>

\* IdempotencyMiddleware.Handle after c.Next(): the record is stored when
\* the request was not aborted and the status is below 500; a failure to
\* store it is logged only
RecordKey(p, failures) ==
    /\ pending[p].kind = "keyed"
    /\ pending[p].phase = "handled"
    /\ LET k == pending[p]
       IN /\ IF ~k.aborted /\ k.writerStatus < 500
             THEN \E fail \in failures :
                     idem' = CreateRecord(idem, k.key, k.hash, k.body, k.writerStatus,
                                          fail).records
             ELSE UNCHANGED idem
          /\ last' = [last EXCEPT ![p] =
                         KeyedOutcome(k, k.body.err, k.status, k.invoked, FALSE)]
    /\ pending' = [pending EXCEPT ![p] = NoRequest]
    /\ UNCHANGED <<expenses, splits, settlements, balances, members, calc, view>>

\* keyed requests one at a time, the database failing where it may
NextIdem ==
    \/ ReceiveKeyed(1, KeyedRequests)
    \/ LookupKey(1, BOOLEAN)
    \/ InvokeHandler(1, MiddlewareFailures)
    \/ RecordKey(1, BOOLEAN)
    \/ Respond(1)

SpecIdem == Init /\ [][NextIdem]_vars

\* keyed requests handled concurrently, the database never failing
NextIdemConc ==
    \E p \in Procs :
        \/ ReceiveKeyed(p, ConcurrentKeyedRequests)
        \/ LookupKey(p, {FALSE})
        \/ InvokeHandler(p, {NoFail})
        \/ RecordKey(p, {FALSE})
        \/ Respond(p)

SpecIdemConc == Init /\ [][NextIdemConc]_vars

----------------------------------------------------------------------------
(* Properties *)

RECURSIVE SumOver(_, _)
SumOver(f, S) ==
    IF S = {} THEN 0 ELSE LET x == CHOOSE y \in S : TRUE IN f[x] + SumOver(f, S \ {x})

\* the sum of the balances GetGroupBalances returns for a group and currency
GroupBalanceSum(bal, g, c) == SumOver(bal, GetGroupBalances(bal, g, c))

\* the rows of expense_splits of one expense, in insertion order
RECURSIVE SplitsOf(_, _)
SplitsOf(rows, id) ==
    IF rows = <<>> THEN <<>>
    ELSE IF rows[1].expenseID = id THEN <<rows[1]>> \o SplitsOf(Tail(rows), id)
    ELSE SplitsOf(Tail(rows), id)

\* process p handles its pending request in this step
Handles(p) == pending[p] # NoRequest /\ pending'[p] = NoRequest

PersistenceErrors == {ErrDatabase, ErrTx}
ValidationErrors == {ErrValidation, ErrInvalid, ErrRequired}

\* C1: after every successful createExpense or createSettlement the balances
\* of each (group, currency) sum to zero
C1_ZeroSum ==
    \A g \in Groups, c \in SupportedCurrencies : GroupBalanceSum(balances, g, c) = 0

\* C2: the split amounts persisted for an expense sum to the expense's amount
C2_SplitsSumToTotal ==
    \A i \in 1..Len(expenses) :
        SumAmounts(SplitsOf(splits, expenses[i].id)) = expenses[i].amount

\* C3: a settlement that commits never leaves its fromUser with a negative
\* balance, however concurrent settlements of the same fromUser interleave
C3_NoOverdraw ==
    [][\A p \in Procs :
          (Handles(p) /\ pending[p].kind = "settlement" /\ last'[p].committed)
          => GetByGroupAndUser(balances', pending[p].group, pending[p].from,
                               DefaultCurrency(pending[p].currency)) >= 0]_vars

\* the unit of work of the request ran to its Commit, which failed, and
\* WithTransaction returned nil
CommitLost(out) == out.tx /\ ~out.committed /\ out.err \notin PersistenceErrors

\* every check CreateSettlement makes before it reads the balance passes
SettlementChecksPass(req) ==
    /\ req.amount > 0 /\ req.amount <= AmountLimit
    /\ DefaultCurrency(req.currency) \in SupportedCurrencies
    /\ req.group \in Groups
    /\ req.from # req.to
    /\ req.from \in members[req.group]
    /\ req.to \in members[req.group]

\* C4: a settlement is rejected as insufficient debt exactly when its amount
\* exceeds fromUser's signed balance; otherwise, the other checks passing and
\* the store not failing, it succeeds and takes the amount off that balance,
\* which a settlement of the whole balance leaves at zero
C4_InsufficientDebt ==
    [][\A p \in Procs :
          (Handles(p) /\ pending[p].kind = "settlement") =>
             LET req == pending[p]
                 cur == DefaultCurrency(req.currency)
                 bal == GetByGroupAndUser(balances, req.group, req.from, cur)
                 out == last'[p]
             IN /\ out.err = ErrInsufficientFund => req.amount > bal
                /\ (SettlementChecksPass(req) /\ req.amount > bal
                       /\ out.err \notin PersistenceErrors)
                      => (out.err = ErrInsufficientFund /\ ledger' = ledger)
                /\ (SettlementChecksPass(req) /\ req.amount > bal) => out.err # ""
                /\ (SettlementChecksPass(req) /\ req.amount <= bal)
                      => (out.err \in {""} \cup PersistenceErrors \/ CommitLost(out))
                /\ (SettlementChecksPass(req) /\ req.amount <= bal /\ out.err = "")
                      => /\ out.committed
                         /\ GetByGroupAndUser(balances', req.group, req.from, cur)
                               = bal - req.amount
                         /\ (req.amount = bal
                               => GetByGroupAndUser(balances', req.group, req.from, cur) = 0)
      ]_vars

\* a settlement of exactly the debt has succeeded and the debt is zero
C4_Witness ==
    \E p \in Procs :
        /\ last[p].req.kind = "settlement"
        /\ last[p].err = ""
        /\ last[p].committed
        /\ <<last[p].req.group, last[p].req.from, DefaultCurrency(last[p].req.currency)>>
              \in DOMAIN balances
        /\ balances[<<last[p].req.group, last[p].req.from,
                      DefaultCurrency(last[p].req.currency)>>] = 0

\* C5: a request whose unit of work was opened and did not commit leaves the
\* expenses, splits, settlements and balances as they were
C5_AllOrNothing ==
    [][\A p \in Procs :
          (Handles(p) /\ last'[p].tx /\ ~last'[p].committed) => ledger' = ledger]_vars

\* a statement of an expense's unit of work has failed
C5_Witness ==
    \E p \in Procs :
        /\ last[p].req.kind = "expense"
        /\ last[p].tx
        /\ ~last[p].committed
        /\ last[p].err = ErrDatabase

\* r is n / d rounded to the nearest integer, a half upwards (n >= 0, d > 0)
NearestCent(r, n, d) == 2 * d * r - d <= 2 * n /\ 2 * n < 2 * d * r + d

ExpenseHeaderOK(req) ==
    /\ req.amount > 0 /\ req.amount <= AmountLimit
    /\ req.description # ""
    /\ DefaultCurrency(req.currency) \in SupportedCurrencies
    /\ req.group \in Groups
    /\ req.paidBy \in members[req.group]

ParticipantsAreMembers(req) ==
    /\ req.group \in Groups
    /\ \A i \in 1..Len(req.splits) : req.splits[i].user \in members[req.group]

\* the rows the expense of request req adds to expense_splits, given its amounts
NewSplitRows(req, amounts) ==
    [i \in 1..Len(req.splits) |->
        [expenseID |-> Len(expenses) + 1, user |-> req.splits[i].user,
         amount |-> amounts[i], percentage |-> req.splits[i].percentage]]

\* C7: an exact-split expense whose amounts do not sum to the total is
\* rejected and nothing is persisted, as an invalid split when the amounts
\* are positive and the participants members; an accepted one persists
\* exactly the supplied amounts
C7_ExactSplit ==
    [][\A p \in Procs :
          (Handles(p) /\ pending[p].kind = "expense" /\ pending[p].splitType = "exact") =>
             LET req == pending[p]
                 out == last'[p]
                 sum == SumAmounts(req.splits)
             IN /\ sum # req.amount
                      => (out.err # "" /\ ~out.committed /\ ledger' = ledger)
                /\ (sum # req.amount /\ ExpenseHeaderOK(req) /\ Len(req.splits) > 0
                       /\ ParticipantsAreMembers(req)
                       /\ (\A i \in 1..Len(req.splits) : req.splits[i].amount > 0)
                       /\ out.err \notin PersistenceErrors)
                      => (out.err = ErrInvalidSplit /\ ~out.tx)
                /\ out.committed
                      => /\ sum = req.amount
                         /\ Len(expenses') = Len(expenses) + 1
                         /\ expenses'[Len(expenses')].amount = req.amount
                         /\ splits' = splits \o
                               NewSplitRows(req, [i \in 1..Len(req.splits) |->
                                                     req.splits[i].amount])
      ]_vars

\* an exact-split expense has been rejected as an invalid split
C7_Witness ==
    \E p \in Procs :
        /\ last[p].req.kind = "expense"
        /\ last[p].req.splitType = "exact"
        /\ last[p].err = ErrInvalidSplit
        /\ SumAmounts(last[p].req.splits) # last[p].req.amount

\* C8: a percentage-split expense whose percentages, each within [0, 100], do
\* not sum to 100 is rejected as an invalid split; an accepted one owes each
\* participant the total times the percentage over 100, rounded to the cent
C8_PercentageSplit ==
    [][\A p \in Procs :
          (Handles(p) /\ pending[p].kind = "expense"
              /\ pending[p].splitType = "percentage") =>
             LET req == pending[p]
                 out == last'[p]
                 sum == SumPercentages(req.splits)
                 n == Len(req.splits)
             IN /\ sum # 100 => (out.err # "" /\ ~out.committed /\ ledger' = ledger)
                /\ (sum # 100 /\ ExpenseHeaderOK(req) /\ n > 0
                       /\ ParticipantsAreMembers(req)
                       /\ (\A i \in 1..n : /\ req.splits[i].percentage >= 0
                                           /\ req.splits[i].percentage <= 100)
                       /\ out.err \notin PersistenceErrors)
                      => (out.err = ErrInvalidSplit /\ ~out.tx)
                /\ out.committed
                      => /\ sum = 100
                         /\ Len(splits') = Len(splits) + n
                         /\ \A i \in 1..n :
                               LET row == splits'[Len(splits) + i]
                               IN /\ row.user = req.splits[i].user
                                  /\ row.expenseID = Len(expenses')
                                  /\ NearestCent(row.amount,
                                                 req.amount * req.splits[i].percentage,
                                                 100)
      ]_vars

\* a percentage-split expense has been accepted with a share rounded upwards
C8_Witness ==
    \E p \in Procs :
        /\ last[p].req.kind = "expense"
        /\ last[p].req.splitType = "percentage"
        /\ last[p].committed
        /\ \E i \in 1..Len(splits) :
              /\ splits[i].expenseID = Len(expenses)
              /\ 100 * splits[i].amount > last[p].req.amount * splits[i].percentage

\* C9: a settlement from a user to the same user is rejected with a
\* validation error whatever its amount, before any group or user is looked
\* up and without a unit of work, and changes nothing
C9_SameUserRejected ==
    [][\A p \in Procs :
          (Handles(p) /\ pending[p].kind = "settlement"
              /\ pending[p].from = pending[p].to)
          => /\ last'[p].err \in ValidationErrors
             /\ ~last'[p].resolved
             /\ ~last'[p].tx
             /\ ledger' = ledger]_vars

\* a well-formed settlement of a member to themselves, of an amount they owe,
\* has been rejected
C9_Witness ==
    \E p \in Procs :
        /\ last[p].req.kind = "settlement"
        /\ last[p].req.from = last[p].req.to
        /\ last[p].req.from \in Members
        /\ last[p].req.amount > 0
        /\ last[p].req.amount
              <= GetByGroupAndUser(balances, last[p].req.group, last[p].req.from,
                                   DefaultCurrency(last[p].req.currency))
        /\ last[p].err = ErrValidation

\* the errors of the validation and business-rule checks
RejectionErrors == ValidationErrors \cup {ErrNotFound, ErrInvalidSplit, ErrInsufficientFund}

\* the faults of an expense request
ExpenseFault(req) ==
    \/ req.amount <= 0
    \/ req.amount > AmountLimit
    \/ DefaultCurrency(req.currency) \notin SupportedCurrencies
    \/ req.group \notin Groups
    \/ req.paidBy \notin Users
    \/ req.paidBy \notin members[req.group]
    \/ req.splits = <<>>
    \/ ~ParticipantsAreMembers(req)
    \/ req.splitType = "exact" /\ SumAmounts(req.splits) # req.amount
    \/ req.splitType = "percentage" /\ SumPercentages(req.splits) # 100

\* the faults of a settlement request against balances bal
SettlementFault(req, bal) ==
    \/ ~SettlementChecksPass(req)
    \/ req.amount > GetByGroupAndUser(bal, req.group, req.from,
                                      DefaultCurrency(req.currency))

\* C10: a request with a validation or business-rule fault is rejected
\* without a unit of work being opened, and a request rejected with the error
\* of such a check leaves expenses, splits, settlements and balances unchanged
C10_RejectionIsEarly ==
    [][\A p \in Procs :
          Handles(p) =>
             LET req == pending[p]
                 out == last'[p]
             IN /\ out.err \in RejectionErrors
                      => (~out.committed /\ ledger' = ledger /\ (out.tx => CommitLost(out)))
                /\ ((req.kind = "expense" /\ ExpenseFault(req))
                       \/ (req.kind = "settlement" /\ SettlementFault(req, balances)))
                      => (out.err # "" /\ ~out.tx /\ ~out.committed /\ ledger' = ledger)
      ]_vars

\* a settlement has been rejected for insufficient debt with no unit of work
C10_Witness ==
    \E p \in Procs :
        /\ last[p].req.kind = "settlement"
        /\ last[p].err = ErrInsufficientFund
        /\ ~last[p].tx

\* the users a request names
NamedUsers(req) ==
    IF req.kind = "settlement" THEN {req.from, req.to}
    ELSE {req.paidBy} \cup {req.splits[i].user : i \in 1..Len(req.splits)}

\* C11: the payer and participants of an expense, and the two parties of a
\* settlement, are members of the group when its unit of work commits,
\* whatever AddMember and RemoveMember calls run meanwhile; a request whose
\* checks find a non-member is rejected with a validation error
C11_MembersAtCommit ==
    [][\A p \in Procs :
          /\ (Handles(p) /\ last'[p].committed)
                => NamedUsers(last'[p].req) \subseteq members[last'[p].req.group]
          /\ (Handles(p) /\ pending[p].kind \in {"expense", "settlement"}
                 /\ (pending[p].kind = "settlement" => pending[p].phase = "received")
                 /\ ~(NamedUsers(pending[p]) \subseteq members[pending[p].group])
                 /\ last'[p].err \notin PersistenceErrors)
                => (last'[p].err = ErrValidation /\ ledger' = ledger)
      ]_vars

RECURSIVE SumOfAmounts(_)
SumOfAmounts(suggestions) ==
    IF suggestions = <<>> THEN 0
    ELSE suggestions[1].amount + SumOfAmounts(Tail(suggestions))

\* the keys of group g's USD rows of positive, and of negative, balance
DebtorKeys(g) == {k \in GetGroupBalances(balances, g, "USD") : balances[k] > 0}
CreditorKeys(g) == {k \in GetGroupBalances(balances, g, "USD") : balances[k] < 0}

\* SimplifyDebts has answered for an existing group
Simplified == view.kind = "simplification" /\ view.err = ""

\* C12: when the balances of the group sum to zero, the suggested amounts sum
\* to the sum of the debtors' balances, which is the sum of the creditors'
\* balances without their sign
C12_SuggestionsTotal ==
    (Simplified /\ GroupBalanceSum(balances, view.group, "USD") = 0) =>
        /\ SumOfAmounts(view.result.suggestions) = SumOver(balances, DebtorKeys(view.group))
        /\ SumOfAmounts(view.result.suggestions)
              = -SumOver(balances, CreditorKeys(view.group))

\* a zero-sum group with two debtors and two creditors has been simplified
C12_Witness ==
    /\ Simplified
    /\ GroupBalanceSum(balances, view.group, "USD") = 0
    /\ Cardinality(DebtorKeys(view.group)) = 2
    /\ Cardinality(CreditorKeys(view.group)) = 2
    /\ SumOfAmounts(view.result.suggestions) = 5

\* the USD rows of group g whose balance is not zero
OpenKeys(g) == DebtorKeys(g) \cup CreditorKeys(g)

\* the most parts of zero sum that the rows K, themselves of zero sum, split into
RECURSIVE MostSettledParts(_)
MostSettledParts(K) ==
    IF K = {} THEN 0
    ELSE LET k == CHOOSE x \in K : TRUE
             counts == {1 + MostSettledParts(K \ T) :
                           T \in {T \in SUBSET K : k \in T /\ SumOver(balances, T) = 0}}
         IN CHOOSE m \in counts : \A n \in counts : n <= m

\* The fewest payments that bring every balance of group g to zero.  The
\* parties joined by a set of payments that settles them fall into groups of
\* zero sum, a group of m parties takes at least m - 1 payments, and m - 1
\* suffice: the fewest is the number of parties less the most such groups.
FewestPayments(g) == Cardinality(OpenKeys(g)) - MostSettledParts(OpenKeys(g))

\* C13: when the balances of the group sum to zero, no set of payments that
\* settles them is smaller than the list of suggestions
C13_FewestSuggestions ==
    (Simplified /\ GroupBalanceSum(balances, view.group, "USD") = 0) =>
        view.result.simplified <= FewestPayments(view.group)

\* C14 as stated: the original count is debtors times creditors, the
\* simplified count the number of suggestions, the savings their difference
\* or zero if that is negative, also when there are no debtors or no creditors
C14_CountsAsStated ==
    Simplified =>
        LET naive == Cardinality(DebtorKeys(view.group))
                        * Cardinality(CreditorKeys(view.group))
        IN /\ view.result.original = naive
           /\ view.result.simplified = Len(view.result.suggestions)
           /\ view.result.savings
                 = (IF naive < view.result.simplified THEN 0
                    ELSE naive - view.result.simplified)

\* C14 amended: the original count is debtors times creditors, and 1 when
\* there are no debtors or no creditors; the simplified count is the number
\* of suggestions; the savings are original less simplified, or zero if that
\* is negative
C14_Counts ==
    Simplified =>
        LET naive == Cardinality(DebtorKeys(view.group))
                        * Cardinality(CreditorKeys(view.group))
        IN /\ view.result.original = (IF naive = 0 THEN 1 ELSE naive)
           /\ view.result.simplified = Len(view.result.suggestions)
           /\ view.result.savings
                 = (IF view.result.original < view.result.simplified THEN 0
                    ELSE view.result.original - view.result.simplified)

\* a group in which nobody owes anything has been simplified
C14_Witness ==
    /\ Simplified
    /\ DebtorKeys(view.group) = {}
    /\ GetGroupBalances(balances, view.group, "USD") # {}
    /\ view.result.original = 1
    /\ view.result.simplified = 0
    /\ view.result.savings = 1

\* C15: the number of suggestions is at most the original count reported
C15_NeverMoreThanOriginal ==
    Simplified => view.result.simplified <= view.result.original

\* two debtors and two creditors have been given three suggestions
C15_Witness ==
    /\ Simplified
    /\ Cardinality(DebtorKeys(view.group)) = 2
    /\ Cardinality(CreditorKeys(view.group)) = 2
    /\ view.result.simplified = 3

TimesApplied(req, exps, setts) ==
    IF req.kind = "expense"
    THEN Cardinality({i \in 1..Len(exps) :
                         /\ exps[i].group = req.group
                         /\ exps[i].paidBy = req.paidBy
                         /\ exps[i].amount = req.amount
                         /\ exps[i].splitType = req.splitType})
    ELSE Cardinality({i \in 1..Len(setts) :
                         /\ setts[i].group = req.group
                         /\ setts[i].from = req.from
                         /\ setts[i].to = req.to
                         /\ setts[i].amount = req.amount})

\* C18: requests of one key and one content, handled one after another,
\* apply their expense or settlement at most once, and a request whose key
\* has a record of the same content is answered with the recorded status and
\* body without its handler being invoked
C18_AtMostOnce ==
    [][/\ \A k \in KeyedRequests : TimesApplied(k.req, expenses', settlements') <= 1
       /\ \A p \in Procs :
             (pending[p].kind = "keyed" /\ pending[p].phase = "received"
                 /\ pending'[p] # pending[p]
                 /\ pending[p].hasKey
                 /\ GetByKey(idem, pending[p].key) # NoRecord
                 /\ GetByKey(idem, pending[p].key).hash = pending[p].hash)
             => /\ pending'[p] = NoRequest
                /\ ~last'[p].invoked
                /\ ledger' = ledger
                /\ last'[p].err # ErrInternal
                      => /\ last'[p].replayed
                         /\ last'[p].status = GetByKey(idem, pending[p].key).status
                         /\ last'[p].err = GetByKey(idem, pending[p].key).body.err
      ]_vars

\* C19: two requests of one key and one content, handled concurrently,
\* create their expense or settlement at most once
C19_ConcurrentAtMostOnce ==
    \A k \in ConcurrentKeyedRequests : TimesApplied(k.req, expenses, settlements) <= 1

\* what the splits of expense e charge user u
ShareOf(rows, e, u) ==
    SumAmounts(SelectSeq(rows, LAMBDA r : r.expenseID = e.id /\ r.user = u))

\* C20: a successful createExpense in group g and currency c adds to the
\* balance of each user for (g, c) the amounts of that user's splits and
\* takes the full amount from the payer's, so that a payer who takes part
\* changes by own share minus total; every other balance is unchanged
C20_ExpenseEffect ==
    [][\A p \in Procs :
          (Handles(p) /\ pending[p].kind = "expense" /\ last'[p].err = "") =>
             LET e == expenses'[Len(expenses')]
             IN /\ Len(expenses') = Len(expenses) + 1
                /\ \A g \in Groups, u \in Users, c \in SupportedCurrencies :
                      GetByGroupAndUser(balances', g, u, c)
                      = GetByGroupAndUser(balances, g, u, c)
                        + (IF g = e.group /\ c = e.currency
                           THEN ShareOf(splits', e, u)
                                - (IF u = e.paidBy THEN e.amount ELSE 0)
                           ELSE 0)
                /\ DOMAIN balances' \subseteq Groups \X Users \X SupportedCurrencies
      ]_vars

\* an expense whose payer is one of two participants has been created over
\* balances that were not zero
C20_Witness ==
    \E p \in Procs :
        /\ last[p].req.kind = "expense"
        /\ last[p].err = ""
        /\ Len(last[p].req.splits) = 2
        /\ \E i \in 1..2 : last[p].req.splits[i].user = last[p].req.paidBy
        /\ Len(expenses) = 2

C22_ErrorMeansNothingHappened ==
    [][\A p \in Procs :
          (Handles(p) /\ pending[p].kind \in {"expense", "settlement"}
              /\ last'[p].err # "")
          => ledger' = ledger]_vars

\* C23: createExpense and createSettlement report success only if their
\* unit of work committed: a unit of work that was opened and did not
\* commit, the Commit itself failing included, gives an error
C23_SuccessMeansCommitted ==
    [][\A p \in Procs :
          (Handles(p) /\ pending[p].kind \in {"expense", "settlement"}) =>
             /\ last'[p].err = "" => last'[p].committed
             /\ (last'[p].tx /\ ~last'[p].committed) => last'[p].err # ""
      ]_vars

\* what user u has left to pay or to receive after the first k suggestions
RECURSIVE RemainderAfter(_, _, _, _)
RemainderAfter(suggestions, k, g, u) ==
    IF k = 0 THEN Abs(GetByGroupAndUser(balances, g, u, "USD"))
    ELSE RemainderAfter(suggestions, k - 1, g, u)
         - (IF u \in {suggestions[k].from, suggestions[k].to}
            THEN suggestions[k].amount ELSE 0)

\* the place of user u in the rows GetGroupBalances returns for group g
PlaceOf(g, u) ==
    LET rows == GroupBalanceRows(balances, g, "USD")
    IN CHOOSE i \in 1..Len(rows) : rows[i].user = u

\* u is, after the first k suggestions, the first in list order of the
\* parties K that have the most left
LargestRemaining(suggestions, k, g, K, u) ==
    /\ <<g, u, "USD">> \in K
    /\ RemainderAfter(suggestions, k, g, u) > 0
    /\ \A x \in K :
          /\ RemainderAfter(suggestions, k, g, x[2]) <= RemainderAfter(suggestions, k, g, u)
          /\ PlaceOf(g, x[2]) < PlaceOf(g, u)
                => RemainderAfter(suggestions, k, g, x[2])
                      < RemainderAfter(suggestions, k, g, u)

\* C24: every suggestion pays from the debtor with the most left to the
\* creditor with the most left at that step, the first in list order on
\* ties, the smaller of the two remainders, which is positive; a user of
\* zero balance is in no suggestion and a party with nothing left in no
\* later one
C24_GreedyStep ==
    Simplified =>
        LET sg == view.result.suggestions
            g == view.group
        IN \A k \in 1..Len(sg) :
              LET debtorLeft == RemainderAfter(sg, k - 1, g, sg[k].from)
                  creditorLeft == RemainderAfter(sg, k - 1, g, sg[k].to)
              IN /\ LargestRemaining(sg, k - 1, g, DebtorKeys(g), sg[k].from)
                 /\ LargestRemaining(sg, k - 1, g, CreditorKeys(g), sg[k].to)
                 /\ sg[k].amount = (IF debtorLeft < creditorLeft THEN debtorLeft
                                    ELSE creditorLeft)
                 /\ sg[k].amount > 0

\* three or more suggestions were made for a group with a user of zero
\* balance, two debtors of equal debt and two creditors
C24_Witness ==
    /\ Simplified
    /\ Len(view.result.suggestions) >= 3
    /\ \E k \in GetGroupBalances(balances, view.group, "USD") : balances[k] = 0
    /\ \E x, y \in DebtorKeys(view.group) : x # y /\ balances[x] = balances[y]
    /\ Cardinality(CreditorKeys(view.group)) = 2

\* C25 as stated: generateSettlementSuggestions makes at most
\* (debtors + creditors - 1) suggestions, and for balances that sum to zero
\* nobody has anything left after the last
C25_TerminationAsStated ==
    Simplified =>
        LET sg == view.result.suggestions
            g == view.group
        IN /\ Len(sg) <= Cardinality(DebtorKeys(g)) + Cardinality(CreditorKeys(g)) - 1
           /\ GroupBalanceSum(balances, g, "USD") = 0
                 => \A k \in GetGroupBalances(balances, g, "USD") :
                       RemainderAfter(sg, Len(sg), g, k[2]) = 0

\* C25: generateSettlementSuggestions makes at most
\* (debtors + creditors - 1) suggestions, none when there is no debtor or
\* no creditor, and for balances that sum to zero both working lists run
\* empty with the last suggestion and not before: nobody has anything left
C25_Termination ==
    Simplified =>
        LET sg == view.result.suggestions
            g == view.group
            d == Cardinality(DebtorKeys(g))
            c == Cardinality(CreditorKeys(g))
        IN /\ (d > 0 /\ c > 0) => (Len(sg) >= 1 /\ Len(sg) <= d + c - 1)
           /\ (d = 0 \/ c = 0) => Len(sg) = 0
           /\ GroupBalanceSum(balances, g, "USD") = 0
                 => /\ \A k \in GetGroupBalances(balances, g, "USD") :
                          RemainderAfter(sg, Len(sg), g, k[2]) = 0
                    /\ \A j \in 0..(Len(sg) - 1) :
                          /\ \E k \in DebtorKeys(g) : RemainderAfter(sg, j, g, k[2]) > 0
                          /\ \E k \in CreditorKeys(g) : RemainderAfter(sg, j, g, k[2]) > 0

\* a zero-sum group of two debtors and three creditors took four suggestions
C25_Witness ==
    /\ Simplified
    /\ GroupBalanceSum(balances, view.group, "USD") = 0
    /\ Cardinality(DebtorKeys(view.group)) = 2
    /\ Cardinality(CreditorKeys(view.group)) = 3
    /\ Len(view.result.suggestions) = 4

\* C26: the payee of a successful createSettlement is owed money before it
\* (negative balance) and is not in debt after it (balance <= 0), and no
\* user owes more after it than before
C26_PayeeStaysCreditor ==
    [][\A p \in Procs :
          (Handles(p) /\ pending[p].kind = "settlement" /\ last'[p].err = "") =>
             LET req == pending[p]
                 cur == DefaultCurrency(req.currency)
             IN /\ GetByGroupAndUser(balances, req.group, req.to, cur) < 0
                /\ GetByGroupAndUser(balances', req.group, req.to, cur) <= 0
                /\ \A u \in Users :
                      GetByGroupAndUser(balances', req.group, u, cur) > 0
                         => GetByGroupAndUser(balances', req.group, u, cur)
                               <= GetByGroupAndUser(balances, req.group, u, cur)
      ]_vars

RECURSIVE DeltasOf(_, _, _, _, _, _)
DeltasOf(exps, rows, setts, g, u, c) ==
    IF exps # <<>>
    THEN LET e == exps[Len(exps)]
         IN (IF e.group = g /\ e.currency = c
             THEN ShareOf(rows, e, u) - (IF e.paidBy = u THEN e.amount ELSE 0)
             ELSE 0)
            + DeltasOf(SubSeq(exps, 1, Len(exps) - 1), rows, setts, g, u, c)
    ELSE IF setts # <<>>
    THEN LET t == setts[Len(setts)]
         IN (IF t.group = g /\ t.currency = c
             THEN (IF t.to = u THEN t.amount ELSE 0) - (IF t.from = u THEN t.amount ELSE 0)
             ELSE 0)
            + DeltasOf(exps, rows, SubSeq(setts, 1, Len(setts) - 1), g, u, c)
    ELSE 0

\* C28: whatever the interleaving of the statements of concurrent units of
\* work, each stored balance is the sum of the deltas of the units of work
\* that have committed, zero where there is no row
C28_NoLostUpdate ==
    \A g \in Groups, u \in Users, c \in SupportedCurrencies :
        GetByGroupAndUser(balances, g, u, c)
        = DeltasOf(expenses, splits, settlements, g, u, c)

\* every process has committed a unit of work, one of them begun while
\* another was in progress
C28_Witness ==
    /\ \A p \in Procs : last[p].req # NoRequest /\ last[p].committed
    /\ \E p \in Procs : "concurrent" \in DOMAIN last[p] /\ last[p].concurrent
    /\ Len(expenses) + Len(settlements) = NumProcs + 1

\* C29: every split amount the calculator gives for an accepted request is
\* non-negative, under each of the three strategies
C29_NonNegativeSplits ==
    (calc.done /\ calc.err = "") =>
        \A i \in 1..Len(calc.splits) : calc.splits[i].amount >= 0

\* C30: a request whose key has a record of another request is answered
\* with the idempotency conflict (an internal error if the record cannot be
\* read), its handler is not invoked and no expense, split, settlement or
\* balance changes
C30_KeyReuseConflict ==
    [][\A p \in Procs :
          (pending[p].kind = "keyed" /\ pending[p].phase = "received"
              /\ pending'[p] # pending[p]
              /\ pending[p].hasKey
              /\ \E i \in 1..Len(idem) :
                    idem[i].key = pending[p].key /\ idem[i].hash # pending[p].hash)
          => /\ pending'[p] = NoRequest
             /\ last'[p].err \in {ErrIdempotency, ErrInternal}
             /\ last'[p].err = ErrIdempotency => last'[p].status = 409
             /\ ~last'[p].invoked
             /\ ~last'[p].replayed
             /\ ledger' = ledger
             /\ idem' = idem
      ]_vars

\* after an expense was created and recorded under a key, a request of
\* another content has been refused under that key
C30_Witness ==
    \E p \in Procs :
        /\ "invoked" \in DOMAIN last[p]
        /\ last[p].err = ErrIdempotency
        /\ ~last[p].invoked
        /\ Len(expenses) = 1
        /\ \E i \in 1..Len(idem) : idem[i].key = last[p].key /\ idem[i].status = 201

====
